---- MODULE Spec2Model ----
(***************************************************************************)
(* Model of deleteEvent (src/src/main.js).  The file holds two revisions   *)
(* of the handler; the later declaration (lines 142-259) is the one in     *)
(* force and is the one modelled.  It differs from the earlier one (lines  *)
(* 3-138) by the 401 check on context.userId and by taking the caller id   *)
(* from context.userId instead of a request header.                        *)
(*                                                                         *)
(* The handler is an async function: every step between two awaits is one  *)
(* atomic action.  A store call is issued by the action that reaches the   *)
(* await and completes (succeeds or throws) in a later "...Return" action. *)
(* Strings that the code inspects (user ids) are sequences of one-char     *)
(* strings so that trim() can be computed.                                 *)
(***************************************************************************)
EXTENDS Integers, Sequences, FiniteSets, TLC

\* ---------------------------------------------------------------- bounds
\* Largest number of photo documents in the record store at the start.
MaxPhotos == 4
\* Page size of the listing (100 in the source), scaled down.
limit == 2
\* Size of a deletion chunk (20 in the source), scaled down.
chunkSize == 2

\* ---------------------------------------------------------------- values
Procs == {1, 2}

\* JavaScript's undefined, kept apart from every string.
undefined == <<"undefined">>

E1 == <<"e", "1">>
E2 == <<"e", "2">>
E3 == <<"e", "3">>

\* Values of context.userId that are tried.
UserIds == {undefined, <<>>, <<"a">>, <<"a", " ">>, <<"b">>}
\* Values of the user_id field of the event document E1.
OwnerIds == {undefined, <<"a">>, <<" ", "a">>}

\* Request bodies: bodyRaw is absent/empty, is not JSON, is the JSON text
\* null, or is a JSON object with or without an eventId.
Bodies ==
  {[raw |-> "absent", eventId |-> undefined],
   [raw |-> "malformed", eventId |-> undefined],
   [raw |-> "null", eventId |-> undefined]}
  \cup {[raw |-> "object", eventId |-> e] : e \in {undefined, <<>>, E1, E3}}

Contexts == [body : Bodies, userId : UserIds]

\* A photo document: $id, event_id and file_id (0 = no file_id).
PhotoDoc(id, kind) ==
  [id |-> id,
   event_id |-> IF kind = "other" THEN E2 ELSE E1,
   file_id |-> IF kind = "file" THEN id ELSE 0]

PhotoKinds == {"file", "nofile", "other"}

InitialPhotoLists ==
  UNION {{[k \in 1..n |-> PhotoDoc(k, kinds[k])] : kinds \in [1..n -> PhotoKinds]}
         : n \in 0..MaxPhotos}

\* ------------------------------------------------------------- JavaScript
\* Truthiness of a string-or-undefined value.
Truthy(v) == v # undefined /\ v # <<>>

\* Truthiness of a file_id.
HasFile(photo) == photo.file_id # 0

RECURSIVE TrimStart(_)
TrimStart(s) ==
  IF s # <<>> /\ Head(s) = " " THEN TrimStart(Tail(s)) ELSE s

RECURSIVE TrimEnd(_)
TrimEnd(s) ==
  IF s # <<>> /\ s[Len(s)] = " " THEN TrimEnd(SubSeq(s, 1, Len(s) - 1)) ELSE s

\* String.prototype.trim
Trim(s) == TrimEnd(TrimStart(s))

\* String(v)
String(v) ==
  IF v = undefined THEN <<"u", "n", "d", "e", "f", "i", "n", "e", "d">> ELSE v

Min(a, b) == IF a < b THEN a ELSE b

\* Array.prototype.slice(from, to) for 0 <= from <= to (0-based, end excluded).
Slice(arr, from, to) == SubSeq(arr, from + 1, Min(to, Len(arr)))

\* JSON.parse(bodyRaw) guarded by "if (bodyRaw)": the payload, or a throw.
ParseBody(body) ==
  CASE body.raw = "absent" -> [threw |-> FALSE, isNull |-> FALSE, eventId |-> undefined]
    [] body.raw = "malformed" -> [threw |-> TRUE, isNull |-> FALSE, eventId |-> undefined]
    [] body.raw = "null" -> [threw |-> FALSE, isNull |-> TRUE, eventId |-> undefined]
    [] OTHER -> [threw |-> FALSE, isNull |-> FALSE, eventId |-> body.eventId]

\* ------------------------------------------------------------------ state
VARIABLES
  events,      \* record store, event collection: id -> document
  photos,      \* record store, photo collection, in listing order
  files,       \* blob store: ids of the stored files
  pc,          \* per invocation: where the handler is suspended
  ctx,         \* per invocation: the request context
  eventId,     \* per invocation: payload.eventId
  currentUserId, \* per invocation
  offset,      \* per invocation
  allPhotos,   \* per invocation
  i,           \* per invocation: chunk loop index
  tasks,       \* per invocation: the member tasks of the current chunk
  response,    \* per invocation: the responses returned
  calls,       \* history, per invocation: store calls in order of issue
  failures,    \* history, per invocation: the calls that threw
  pages,       \* history, per invocation: lengths of the pages received
  chunks,      \* history, per invocation: the chunks processed
  snap         \* history, per invocation: the stores when it was invoked

storeVars == <<events, photos, files>>
localVars == <<ctx, eventId, currentUserId, offset, allPhotos, i, tasks>>
vars == <<events, photos, files, pc, ctx, eventId, currentUserId, offset,
          allPhotos, i, tasks, response, calls, failures, pages, chunks, snap>>

\* ------------------------------------------------------------- the stores
\* listDocuments with Query.equal('event_id', id), Query.limit, Query.offset.
ListDocuments(docs, id, lim, off) ==
  LET matching == SelectSeq(docs, LAMBDA d : d.event_id = id)
  IN SubSeq(matching, off + 1, Min(off + lim, Len(matching)))

\* The photo collection without the document id.
RemovePhoto(docs, id) == SelectSeq(docs, LAMBDA d : d.id # id)

PhotoIds(docs) == {docs[k].id : k \in 1..Len(docs)}

Call(op, arg) == [op |-> op, arg |-> arg]

Init ==
  /\ \E owner \in OwnerIds :
       events = [e \in {E1, E2} |->
                   [user_id |-> IF e = E1 THEN owner ELSE <<"b">>]]
  /\ photos \in InitialPhotoLists
  /\ files = {photos[k].file_id : k \in {j \in 1..Len(photos) : HasFile(photos[j])}}
  /\ pc = [p \in Procs |-> "idle"]
  /\ ctx = [p \in Procs |-> [body |-> [raw |-> "absent", eventId |-> undefined],
                             userId |-> undefined]]
  /\ eventId = [p \in Procs |-> undefined]
  /\ currentUserId = [p \in Procs |-> undefined]
  /\ offset = [p \in Procs |-> 0]
  /\ allPhotos = [p \in Procs |-> <<>>]
  /\ i = [p \in Procs |-> 0]
  /\ tasks = [p \in Procs |-> <<>>]
  /\ response = [p \in Procs |-> <<>>]
  /\ calls = [p \in Procs |-> <<>>]
  /\ failures = [p \in Procs |-> {}]
  /\ pages = [p \in Procs |-> <<>>]
  /\ chunks = [p \in Procs |-> <<>>]
  /\ snap = [p \in Procs |-> [events |-> events, photos |-> photos, files |-> files]]

\* ------------------------------------------------- decisions of the handler
\* "if (!eventId)"
MissingEventId(id) == ~Truthy(id)

\* A variant of the definition that follows, as a slip in the code would make it.
Unauthenticated_skipped(userId) == FALSE

\* "if (!context.userId)"
Unauthenticated(userId) == ~Truthy(userId)

\* A variant of the definition that follows, as a slip in the code would make it.
DocMissing_unchecked(found) == FALSE

\* "if (!eventDoc)"
DocMissing(found) == ~found

\* String(eventDoc.user_id || '').trim()
EventUserId(doc) == Trim(String(IF Truthy(doc.user_id) THEN doc.user_id ELSE <<>>))

\* A variant of the definition that follows, as a slip in the code would make it.
OwnershipMismatch_skipped(eventUserId, userId) == FALSE

\* "if (eventUserId !== currentUserId)"
OwnershipMismatch(eventUserId, userId) == eventUserId # userId

\* "if (response.documents.length === 0) break"
EmptyPage(n) == n = 0

\* A variant of the definition that follows, as a slip in the code would make it:
\* the offset advances by the page size.
NextOffset_fixed(off, n) == off + limit

\* "offset += response.documents.length"
NextOffset(off, n) == off + n

\* A variant of the definition that follows, as a slip in the code would make it.
ShortPage_inclusive(n) == n <= limit

\* A variant of the definition that follows, as a slip in the code would make it:
\* only an empty page ends the loop.
ShortPage_never(n) == FALSE

\* "if (response.documents.length < limit) break"
ShortPage(n) == n < limit

\* A variant of the definition that follows, as a slip in the code would make it.
Chunk_short(all, idx) == Slice(all, idx, idx + chunkSize - 1)

\* A variant of the definition that follows, as a slip in the code would make it:
\* the slice starts one element late.
Chunk_fromNext(all, idx) == Slice(all, idx + 1, idx + chunkSize)

\* allPhotos.slice(i, i + chunkSize)
Chunk(all, idx) == Slice(all, idx, idx + chunkSize)

\* A variant of the definition that follows, as a slip in the code would make it:
\* the "if (photo.file_id)" guard is missing.
FirstAwait_always(photo) == "deleteFile"

\* A variant of the definition that follows, as a slip in the code would make it:
\* the file is forgotten.
FirstAwait_docOnly(photo) == "deleteDocument"

\* A member task runs up to its first await: deleteFile when the photo has a
\* file_id, deleteDocument otherwise.
FirstAwait(photo) == IF HasFile(photo) THEN "deleteFile" ELSE "deleteDocument"

\* A variant of the definition that follows, as a slip in the code would make it.
AfterDeleteFile_abort(ok) == IF ok THEN "deleteDocument" ELSE "settled"

\* The try/catch around deleteFile: the task goes on to deleteDocument
\* whether deleteFile resolved or threw.
AfterDeleteFile(ok) == "deleteDocument"

\* A variant of the definition that follows, as a slip in the code would make it.
ListFailureIsFatal_swallowed == FALSE

\* A throw of listDocuments is caught only by the outer catch.
ListFailureIsFatal == TRUE

\* A variant of the definition that follows, as a slip in the code would make it.
StatusAfterDeleteEvent_ignored(ok) == 200

\* "await databases.deleteDocument(..., eventId)" inside the outer try: 200
\* when it resolves, 500 from the catch when it throws.
StatusAfterDeleteEvent(ok) == IF ok THEN 200 ELSE 500

\* A variant of the definition that follows, as a slip in the code would make it.
DeletedPhotos_succeeded(all, failed) ==
  Len(all) - Cardinality({c \in failed : c.op = "deleteDocument"})

\* "deletedPhotos: allPhotos.length"
DeletedPhotos(all, failed) == Len(all)

\* ----------------------------------------------------------------- steps
Finished(p) == pc[p] \in {"done", "rejected"}

\* return context.res.json({ statusCode, ... })
Respond(p, status, count) ==
  /\ response' = [response EXCEPT ![p] =
                    Append(@, [statusCode |-> status, deletedPhotos |-> count])]
  /\ pc' = [pc EXCEPT ![p] = "done"]

\* The calls a chunk's tasks issue before the handler awaits allSettled.
IssuedBy(chunk) ==
  [k \in 1..Len(chunk) |->
     IF FirstAwait(chunk[k]) = "deleteFile"
     THEN Call("deleteFile", chunk[k].file_id)
     ELSE Call("deleteDocument", chunk[k].id)]

\* The chunk loop at index idx: start the chunk's tasks and await them, or,
\* past the end, issue the deletion of the event document.
EnterChunkOrParent(p, all, idx) ==
  /\ i' = [i EXCEPT ![p] = idx]
  /\ IF idx < Len(all)
     THEN LET chunk == Chunk(all, idx)
          IN /\ tasks' = [tasks EXCEPT ![p] =
                            [k \in 1..Len(chunk) |->
                               [photo |-> chunk[k], st |-> FirstAwait(chunk[k])]]]
             /\ chunks' = [chunks EXCEPT ![p] = Append(@, chunk)]
             /\ calls' = [calls EXCEPT ![p] = @ \o IssuedBy(chunk)]
             /\ pc' = [pc EXCEPT ![p] = "allSettled"]
     ELSE /\ tasks' = [tasks EXCEPT ![p] = <<>>]
          /\ chunks' = chunks
          /\ calls' = [calls EXCEPT ![p] = Append(@, Call("deleteEvent", 0))]
          /\ pc' = [pc EXCEPT ![p] = "deleteEvent"]

\* The handler from its entry to its first await (or early return).
Invoke(p, c) ==
  /\ pc[p] = "idle"
  /\ ctx' = [ctx EXCEPT ![p] = c]
  /\ snap' = [snap EXCEPT ![p] = [events |-> events, photos |-> photos, files |-> files]]
  /\ UNCHANGED <<storeVars, offset, allPhotos, i, tasks, failures, pages, chunks>>
  /\ LET parsed == ParseBody(c.body)
     IN IF parsed.threw
        THEN /\ Respond(p, 400, -1)
             /\ UNCHANGED <<eventId, currentUserId, calls>>
        ELSE IF parsed.isNull
        THEN \* destructuring null throws outside every try
             /\ pc' = [pc EXCEPT ![p] = "rejected"]
             /\ UNCHANGED <<eventId, currentUserId, calls, response>>
        ELSE /\ eventId' = [eventId EXCEPT ![p] = parsed.eventId]
             /\ IF MissingEventId(parsed.eventId)
                THEN /\ Respond(p, 400, -1)
                     /\ UNCHANGED <<currentUserId, calls>>
                ELSE IF Unauthenticated(c.userId)
                THEN /\ Respond(p, 401, -1)
                     /\ UNCHANGED <<currentUserId, calls>>
                ELSE /\ currentUserId' = [currentUserId EXCEPT ![p] = String(c.userId)]
                     /\ calls' = [calls EXCEPT ![p] = Append(@, Call("getDocument", 0))]
                     /\ pc' = [pc EXCEPT ![p] = "getDocument"]
                     /\ UNCHANGED response

\* getDocument completes with the given outcome: it throws, or it returns
\* the document or nothing.
GetDocumentReturns(p, threw) ==
  /\ pc[p] = "getDocument"
  /\ UNCHANGED <<storeVars, ctx, eventId, currentUserId, allPhotos, i, tasks,
                 pages, chunks, snap>>
  /\ LET found == eventId[p] \in DOMAIN events
       IN IF threw
          THEN /\ failures' = [failures EXCEPT ![p] = @ \cup {Call("getDocument", 0)}]
               /\ Respond(p, 500, -1)
               /\ UNCHANGED <<offset, calls>>
          ELSE /\ failures' = failures
               /\ IF DocMissing(found)
                  THEN /\ Respond(p, 404, -1)
                       /\ UNCHANGED <<offset, calls>>
                  ELSE IF ~found
                  THEN \* reading user_id of nothing throws inside the try
                       /\ Respond(p, 500, -1)
                       /\ UNCHANGED <<offset, calls>>
                  ELSE IF OwnershipMismatch(EventUserId(events[eventId[p]]),
                                            currentUserId[p])
                  THEN /\ Respond(p, 403, -1)
                       /\ UNCHANGED <<offset, calls>>
                  ELSE /\ offset' = [offset EXCEPT ![p] = 0]
                       /\ calls' = [calls EXCEPT ![p] = Append(@, Call("listDocuments", 0))]
                       /\ pc' = [pc EXCEPT ![p] = "listDocuments"]
                       /\ UNCHANGED response

\* getDocument completes: it throws, or returns the document or nothing.
GetDocumentReturn(p) == \E threw \in BOOLEAN : GetDocumentReturns(p, threw)

\* The page the record store holds for the pending listDocuments call.
PageAt(p) == ListDocuments(photos, eventId[p], limit, offset[p])

\* A variant of the definition that follows, as a slip in the code would make it:
\* the deletions of the page are fired inside the paging loop.
AfterPage_eager(p, all, n) ==
  /\ calls' = [calls EXCEPT ![p] =
                 (@ \o IssuedBy(Chunk(all, 0)))
                   \o <<Call("listDocuments", offset'[p])>>]
  /\ UNCHANGED <<pc, i, tasks, chunks, response>>

\* After a non-empty page was pushed: a short page breaks the loop and the
\* chunk loop starts; a full page is followed by the next listDocuments.
AfterPage(p, all, n) ==
  IF ShortPage(n)
  THEN /\ EnterChunkOrParent(p, all, 0)
       /\ UNCHANGED response
  ELSE /\ calls' = [calls EXCEPT ![p] = Append(@, Call("listDocuments", offset'[p]))]
       /\ UNCHANGED <<pc, i, tasks, chunks, response>>

\* listDocuments completes with the given outcome: it throws, or it returns
\* the given page.
ListDocumentsReturns(p, page, threw) ==
  /\ pc[p] = "listDocuments"
  /\ UNCHANGED <<storeVars, ctx, eventId, currentUserId, snap>>
  /\ LET n == Len(page)
       IN IF threw /\ ListFailureIsFatal
          THEN /\ failures' = [failures EXCEPT ![p] =
                                 @ \cup {Call("listDocuments", offset[p])}]
               /\ Respond(p, 500, -1)
               /\ UNCHANGED <<offset, allPhotos, i, tasks, calls, pages, chunks>>
          ELSE IF threw \/ EmptyPage(n)
          THEN /\ failures' = IF threw
                              THEN [failures EXCEPT ![p] =
                                      @ \cup {Call("listDocuments", offset[p])}]
                              ELSE failures
               /\ pages' = IF threw THEN pages ELSE [pages EXCEPT ![p] = Append(@, n)]
               /\ EnterChunkOrParent(p, allPhotos[p], 0)
               /\ UNCHANGED <<offset, allPhotos, response>>
          ELSE /\ failures' = failures
               /\ pages' = [pages EXCEPT ![p] = Append(@, n)]
               /\ allPhotos' = [allPhotos EXCEPT ![p] = @ \o page]
               /\ offset' = [offset EXCEPT ![p] = NextOffset(@, n)]
               /\ AfterPage(p, allPhotos'[p], n)

\* listDocuments completes: it throws, or returns the page at the offset.
ListDocumentsReturn(p) ==
  \E threw \in BOOLEAN : ListDocumentsReturns(p, PageAt(p), threw)

\* deleteFile of member k of the current chunk completes with the given
\* outcome; it cannot succeed on a file that is not stored.
DeleteFileReturns(p, k, ok) ==
  /\ pc[p] = "allSettled"
  /\ k \in DOMAIN tasks[p]
  /\ tasks[p][k].st = "deleteFile"
  /\ UNCHANGED <<events, photos, pc, ctx, eventId, currentUserId, offset, allPhotos,
                 i, response, pages, chunks, snap>>
  /\ LET photo == tasks[p][k].photo
     IN   /\ ok => photo.file_id \in files
          /\ files' = IF ok THEN files \ {photo.file_id} ELSE files
          /\ failures' = IF ok THEN failures
                         ELSE [failures EXCEPT ![p] =
                                 @ \cup {Call("deleteFile", photo.file_id)}]
          /\ tasks' = [tasks EXCEPT ![p][k].st = AfterDeleteFile(ok)]
          /\ calls' = IF AfterDeleteFile(ok) = "deleteDocument"
                      THEN [calls EXCEPT ![p] = Append(@, Call("deleteDocument", photo.id))]
                      ELSE calls

\* deleteFile of member k of the current chunk completes.
DeleteFileReturn(p, k) == \E ok \in BOOLEAN : DeleteFileReturns(p, k, ok)

\* deleteDocument of member k of the current chunk completes with the given
\* outcome; it cannot succeed on a document that is not stored.
DeleteDocumentReturns(p, k, ok) ==
  /\ pc[p] = "allSettled"
  /\ k \in DOMAIN tasks[p]
  /\ tasks[p][k].st = "deleteDocument"
  /\ UNCHANGED <<events, files, pc, ctx, eventId, currentUserId, offset, allPhotos,
                 i, response, calls, pages, chunks, snap>>
  /\ LET photo == tasks[p][k].photo
     IN   /\ ok => photo.id \in PhotoIds(photos)
          /\ photos' = IF ok THEN RemovePhoto(photos, photo.id) ELSE photos
          /\ failures' = IF ok THEN failures
                         ELSE [failures EXCEPT ![p] =
                                 @ \cup {Call("deleteDocument", photo.id)}]
          /\ tasks' = [tasks EXCEPT ![p][k].st = "settled"]

\* deleteDocument of member k of the current chunk completes.
DeleteDocumentReturn(p, k) == \E ok \in BOOLEAN : DeleteDocumentReturns(p, k, ok)

\* A variant of the definition that follows, as a slip in the code would make it:
\* the first task to settle resumes the loop (Promise.race).
Settled_any(ts) == \E k \in DOMAIN ts : ts[k].st = "settled"

\* A variant of the definition that follows, as a slip in the code would make it:
\* the promise of the chunk is not awaited.
Settled_unawaited(ts) == TRUE

\* "await Promise.allSettled(...)": every member task has run to its end.
Settled(ts) == \A k \in DOMAIN ts : ts[k].st = "settled"

\* Promise.allSettled resolves: the loop goes to the next chunk.
AllSettled(p) ==
  /\ pc[p] = "allSettled"
  /\ Settled(tasks[p])
  /\ EnterChunkOrParent(p, allPhotos[p], i[p] + chunkSize)
  /\ UNCHANGED <<storeVars, ctx, eventId, currentUserId, offset, allPhotos,
                 response, failures, pages, snap>>

\* deleteDocument of the event completes with the given outcome; it cannot
\* succeed on a document that is not stored.
DeleteEventReturns(p, ok) ==
  /\ pc[p] = "deleteEvent"
  /\ UNCHANGED <<photos, files, localVars, calls, pages, chunks, snap>>
  /\   /\ ok => eventId[p] \in DOMAIN events
       /\ events' = IF ok
                    THEN [e \in DOMAIN events \ {eventId[p]} |-> events[e]]
                    ELSE events
       /\ failures' = IF ok THEN failures
                      ELSE [failures EXCEPT ![p] = @ \cup {Call("deleteEvent", 0)}]
       /\ Respond(p, StatusAfterDeleteEvent(ok),
                  IF StatusAfterDeleteEvent(ok) = 200
                  THEN DeletedPhotos(allPhotos[p], failures[p])
                  ELSE -1)

\* deleteDocument of the event completes.
DeleteEventReturn(p) == \E ok \in BOOLEAN : DeleteEventReturns(p, ok)

\* A first request, with any context.
FirstRequest == \E c \in Contexts : Invoke(1, c)

\* The same request once more, after the first invocation has answered 200.
RepeatedRequest ==
  /\ pc[1] = "done"
  /\ response[1][Len(response[1])].statusCode = 200
  /\ Invoke(2, ctx[1])

Step(p) ==
  \/ GetDocumentReturn(p)
  \/ ListDocumentsReturn(p)
  \/ \E k \in 1..chunkSize : DeleteFileReturn(p, k)
  \/ \E k \in 1..chunkSize : DeleteDocumentReturn(p, k)
  \/ AllSettled(p)
  \/ DeleteEventReturn(p)

Next ==
  \/ FirstRequest
  \/ RepeatedRequest
  \/ \E p \in Procs : Step(p)

Spec == Init /\ [][Next]_vars

\* listDocuments completes with fewer documents than were asked for and than
\* the store holds at the offset: a non-empty, truncated page.
TruncatedListDocumentsReturn(p) ==
  \E m \in 1..(limit - 1) :
    /\ m < Len(PageAt(p))
    /\ ListDocumentsReturns(p, SubSeq(PageAt(p), 1, m), FALSE)

\* The handler over a record store that may truncate pages.
NextShort ==
  \/ Next
  \/ \E p \in Procs : TruncatedListDocumentsReturn(p)

SpecShort == Init /\ [][NextShort]_vars

\* Every store call that was issued completes, and the continuation that
\* awaits it runs: no invocation stays suspended for ever.
LiveSpec == Spec /\ \A p \in Procs : WF_vars(Step(p))

\* ------------------------------------------------- vocabulary of the claims
Range(seq) == {seq[k] : k \in 1..Len(seq)}

DeleteOps == {"deleteFile", "deleteDocument", "deleteEvent"}

\* The delete calls an invocation has issued, to either store.
DeleteCalls(p) == {c \in Range(calls[p]) : c.op \in DeleteOps}

Issued(p, op) == \E c \in Range(calls[p]) : c.op = op

Failed(p, op) == \E c \in failures[p] : c.op = op

\* The invocation returned exactly one response, with this status code.
Responded(p, status) ==
  /\ pc[p] = "done"
  /\ Len(response[p]) = 1
  /\ response[p][1].statusCode = status

\* No later invocation has touched the stores.
Latest(p) == \A q \in Procs : q > p => pc[q] = "idle"

StoresAsInvoked(p) ==
  /\ events = snap[p].events
  /\ photos = snap[p].photos
  /\ files = snap[p].files

\* The dependents of a parent in a photo collection, in listing order.
Dependents(docs, id) == SelectSeq(docs, LAMBDA d : d.event_id = id)

\* The request names a parent by a non-empty eventId.
ValidInput(p) == ctx[p].body.raw = "object" /\ ctx[p].body.eventId \notin {undefined, <<>>}

\* The caller identity as a string ('' when there is none).
CallerId(p) == IF ctx[p].userId = undefined THEN <<>> ELSE ctx[p].userId

\* The owner recorded on the parent when the invocation began ('' when none).
RecordedOwner(p) ==
  LET doc == snap[p].events[ctx[p].body.eventId]
  IN IF doc.user_id = undefined THEN <<>> ELSE doc.user_id

\* The parent exists and its owner is not the caller (AuthorizationGuard's
\* comparison: trimmed strings, exact match).
NotOwner(p) ==
  /\ pc[p] # "idle"
  /\ ValidInput(p)
  /\ ctx[p].body.eventId \in DOMAIN snap[p].events
  /\ Trim(RecordedOwner(p)) # Trim(CallerId(p))

\* The parent lookup was made and returned (it did not throw).
LookupReturned(p) ==
  /\ Issued(p, "getDocument")
  /\ ~Failed(p, "getDocument")
  /\ pc[p] # "getDocument"

\* ------------------------------------------------------------------- C1
\* C1: authorization comes strictly before any deletion.  For every
\* invocation on an existing parent whose recorded owner differs from the
\* caller, no delete call is ever issued to the record store or the blob
\* store, the parent and all dependents are unchanged, and once the lookup
\* of the parent has returned the response is 403.
C1_NoDeleteForNonOwner ==
  \A p \in Procs :
    NotOwner(p) =>
      /\ DeleteCalls(p) = {}
      /\ StoresAsInvoked(p)
      /\ (Finished(p) /\ LookupReturned(p) => Responded(p, 403))

C1_Witness ==
  \E p \in Procs :
    /\ NotOwner(p)
    /\ Responded(p, 403)
    /\ Truthy(ctx[p].userId)
    /\ Len(Dependents(snap[p].photos, eventId[p])) > 0
    /\ \E d \in Range(snap[p].photos) : HasFile(d)

\* ------------------------------------------------------------------- C2
\* C2: every request whose body is malformed or whose eventId is missing
\* or empty is answered with 400, and no store call of any kind is issued.
C2_BadInputIs400 ==
  \A p \in Procs :
    Finished(p) /\ ~ValidInput(p) => Responded(p, 400) /\ calls[p] = <<>>

\* ------------------------------------------------------------------- C3
\* C3: a request with a valid eventId but an empty or absent caller
\* identity is answered with 401, never with 403, and issues no delete call
\* (no store call at all).
C3_NoCallerIs401 ==
  \A p \in Procs :
    Finished(p) /\ ValidInput(p) /\ ctx[p].userId \in {undefined, <<>>} =>
      /\ Responded(p, 401)
      /\ \A r \in Range(response[p]) : r.statusCode # 403
      /\ DeleteCalls(p) = {}
      /\ calls[p] = <<>>

C3_Witness ==
  \E p \in Procs :
    /\ ValidInput(p)
    /\ ctx[p].userId = <<>>
    /\ ctx[p].body.eventId \in DOMAIN events
    /\ Responded(p, 401)

\* ------------------------------------------------------------------- C4
\* C4: when the lookup reports that the parent is absent from the record
\* store (also on a second invocation, after a first one deleted it), the
\* outcome is 404, not 500 or a crash, and nothing follows the lookup: no
\* authorization (no 403), no discovery, no deletion.
C4_AbsentParentIs404 ==
  \A p \in Procs :
    /\ LookupReturned(p)
    /\ eventId[p] \notin DOMAIN snap[p].events
    => /\ Responded(p, 404)
       /\ calls[p] = <<Call("getDocument", 0)>>
       /\ (Latest(p) => StoresAsInvoked(p))

C4_Witness ==
  /\ Responded(1, 200)
  /\ Responded(2, 404)
  /\ eventId[2] \in DOMAIN snap[1].events
  /\ eventId[2] \notin DOMAIN snap[2].events

\* ------------------------------------------------- discovery and deletion
RECURSIVE Sum(_)
Sum(seq) == IF seq = <<>> THEN 0 ELSE Head(seq) + Sum(Tail(seq))

CeilDiv(n, d) == (n + d - 1) \div d

\* Discovery ended by a break of the paging loop (no page fetch threw).
Discovered(p) ==
  /\ Issued(p, "listDocuments")
  /\ ~Failed(p, "listDocuments")
  /\ pc[p] # "listDocuments"

\* Every chunk has been processed: the deletion of the parent was issued.
BatchDone(p) == Issued(p, "deleteEvent")

\* The ids of the dependents whose record deletion was called and did not
\* throw, and of the blobs likewise.
RecordsRemoved(p) ==
  {c.arg : c \in {d \in Range(calls[p]) : d.op = "deleteDocument" /\ d \notin failures[p]}}

BlobsRemoved(p) ==
  {c.arg : c \in {d \in Range(calls[p]) : d.op = "deleteFile" /\ d \notin failures[p]}}

\* ------------------------------------------------------------------- C5
\* C5: over a store that pages deterministically (filter, limit and offset
\* honoured) and holds n dependents of the parent, the accumulated sequence
\* is exactly those n dependents, each once, in listing order; every page
\* but the last is full and the last one is shorter than the page size, so
\* discovery stopped at the first short page.
C5_DiscoveryIsExact ==
  \A p \in Procs :
    Discovered(p) =>
      /\ allPhotos[p] = Dependents(snap[p].photos, eventId[p])
      /\ Sum(pages[p]) = Len(allPhotos[p])
      /\ \A k \in 1..(Len(pages[p]) - 1) : pages[p][k] = limit
      /\ pages[p][Len(pages[p])] < limit
      /\ Cardinality({c \in Range(calls[p]) : c.op = "listDocuments"}) = Len(pages[p])

C5_Witness ==
  \E p \in Procs :
    /\ Discovered(p)
    /\ Len(pages[p]) >= 2
    /\ pages[p][Len(pages[p])] > 0
    /\ Len(allPhotos[p]) > limit
    /\ Len(allPhotos[p]) < Len(snap[p].photos)

\* ------------------------------------------------------------------- C6
\* C6: for a discovered sequence of length n the batch deleter processes
\* exactly ceil(n / C) groups; group k (1-based) is the dependents at
\* positions [(k-1)*C, k*C) of the sequence, in the original order; for
\* n = 0 no group is processed.
C6_ChunksPartition ==
  \A p \in Procs :
    BatchDone(p) =>
      LET n == Len(allPhotos[p])
      IN /\ Len(chunks[p]) = CeilDiv(n, chunkSize)
         /\ (n = 0 => chunks[p] = <<>>)
         /\ \A k \in 1..Len(chunks[p]) :
              /\ Len(chunks[p][k]) = Min(k * chunkSize, n) - (k - 1) * chunkSize
              /\ \A j \in 1..Len(chunks[p][k]) :
                   chunks[p][k][j] = allPhotos[p][(k - 1) * chunkSize + j]

C6_Witness ==
  \E p \in Procs :
    /\ BatchDone(p)
    /\ Len(chunks[p]) >= 2
    /\ Len(chunks[p][1]) = chunkSize
    /\ Len(chunks[p][Len(chunks[p])]) < chunkSize

\* ------------------------------------------------------------------- C7
\* C7: partial-failure tolerance.  Whatever blob and record deletions fail,
\* the batch is not cut short: while the batch runs the handler does not
\* respond, and by the time the batch is over a record deletion has been
\* attempted for every discovered dependent, those whose own blob deletion
\* failed and those in the same and in later groups alike.
C7_EveryDependentAttempted ==
  \A p \in Procs :
    /\ (pc[p] = "allSettled" => response[p] = <<>>)
    /\ (Discovered(p) /\ pc[p] # "allSettled" =>
          \A d \in Range(allPhotos[p]) :
            Call("deleteDocument", d.id) \in Range(calls[p]))

C7_Witness ==
  \E p \in Procs :
    /\ BatchDone(p)
    /\ Len(chunks[p]) >= 2
    /\ Call("deleteFile", chunks[p][1][1].file_id) \in failures[p]
    /\ Call("deleteDocument", chunks[p][1][1].id) \in failures[p]
    /\ \A d \in Range(allPhotos[p]) : Call("deleteDocument", d.id) \in Range(calls[p])

\* ------------------------------------------------------------------- C8
\* C8: if a page fetch fails, the operation ends with 500 and the whole
\* invocation issues no delete call: the parent, the dependents and the
\* blobs are as they were, also when earlier pages had been fetched.
C8_DiscoveryFailureIsFatal ==
  \A p \in Procs :
    Failed(p, "listDocuments") =>
      /\ Responded(p, 500)
      /\ DeleteCalls(p) = {}
      /\ (Latest(p) => StoresAsInvoked(p))

C8_Witness ==
  \E p \in Procs :
    /\ Responded(p, 500)
    /\ \E c \in failures[p] : c.op = "listDocuments" /\ c.arg > 0
    /\ allPhotos[p] # <<>>

\* ------------------------------------------------------------------- C9
\* C9: if the deletion of the parent fails, the response is 500 (never
\* 200), the parent record still exists, and the deletions of dependents
\* already performed stay: the stores hold what they held at the start
\* minus exactly the records and blobs whose deletion succeeded.
C9_ParentDeletionFailure ==
  \A p \in Procs :
    Failed(p, "deleteEvent") =>
      /\ Responded(p, 500)
      /\ \A r \in Range(response[p]) : r.statusCode # 200
      /\ (Latest(p) =>
            /\ eventId[p] \in DOMAIN events
            /\ events = snap[p].events
            /\ photos = SelectSeq(snap[p].photos, LAMBDA d : d.id \notin RecordsRemoved(p))
            /\ files = snap[p].files \ BlobsRemoved(p))

C9_Witness ==
  \E p \in Procs :
    /\ Latest(p)
    /\ Failed(p, "deleteEvent")
    /\ Responded(p, 500)
    /\ RecordsRemoved(p) # {}
    /\ BlobsRemoved(p) # {}
    /\ Len(photos) < Len(snap[p].photos)

\* ------------------------------------------------------------------ C10
\* C10: in every 200 response deletedPhotos is the number of dependents
\* discovered (the sum of the pages received, which is the number of
\* dependents the parent had), however many blob or record deletions
\* failed; it is not the number deleted.
C10_CountIsDiscovered ==
  \A p \in Procs :
    Responded(p, 200) =>
      /\ response[p][1].deletedPhotos = Sum(pages[p])
      /\ response[p][1].deletedPhotos = Len(Dependents(snap[p].photos, eventId[p]))

C10_Witness ==
  \E p \in Procs :
    /\ Responded(p, 200)
    /\ Failed(p, "deleteDocument")
    /\ Failed(p, "deleteFile")
    /\ response[p][1].deletedPhotos > Cardinality(RecordsRemoved(p))
    /\ Cardinality(RecordsRemoved(p)) > 0

\* ------------------------------------------------------------------ C11
\* C11: every invocation produces exactly one response: never more than
\* one, and an invocation that has come to its end, on whatever path, has
\* returned one.
C11_ExactlyOneResponse ==
  \A p \in Procs :
    /\ Len(response[p]) <= 1
    /\ (Finished(p) => Len(response[p]) = 1)

\* ------------------------------------------------- the batch, step by step
\* How often a call occurs among the calls of an invocation.
Count(p, c) == Cardinality({k \in 1..Len(calls[p]) : calls[p][k] = c})

\* The place of the first occurrence of a call (0 when there is none).
IndexOf(p, c) ==
  IF c \in Range(calls[p])
  THEN CHOOSE k \in 1..Len(calls[p]) :
         calls[p][k] = c /\ \A j \in 1..(k - 1) : calls[p][j] # c
  ELSE 0

\* The calls a step adds to those of an invocation.
NewCalls(p) == {calls'[p][k] : k \in (Len(calls[p]) + 1)..Len(calls'[p])}

\* The member tasks that have a store call pending.
InFlight(p) == {k \in DOMAIN tasks[p] : tasks[p][k].st # "settled"}

\* The call deletes the blob or the record of a member of the group.
Targets(c, group) ==
  \/ c.op = "deleteFile" /\ \E d \in Range(group) : HasFile(d) /\ d.file_id = c.arg
  \/ c.op = "deleteDocument" /\ \E d \in Range(group) : d.id = c.arg

\* ------------------------------------------------------------------ C12
\* C12: groups are processed strictly one after the other.  A step that
\* starts a group is taken only when every member task of the group before
\* it has completed; every blob or record delete call a step issues is for
\* a member of the group started last; so the tasks in flight belong to one
\* group and are at most C.
C12_GroupsAreSequential ==
  [][\A p \in Procs :
       /\ Len(chunks'[p]) > Len(chunks[p]) => InFlight(p) = {}
       /\ \A c \in NewCalls(p) :
            c.op \in {"deleteFile", "deleteDocument"} =>
              /\ chunks'[p] # <<>>
              /\ Targets(c, chunks'[p][Len(chunks'[p])])
       /\ Cardinality(InFlight(p)') <= chunkSize
       /\ \A k \in InFlight(p)' :
            /\ chunks'[p] # <<>>
            /\ tasks'[p][k].photo \in Range(chunks'[p][Len(chunks'[p])])]_vars

C12_Witness ==
  \E p \in Procs :
    /\ Len(chunks[p]) >= 2
    /\ pc[p] = "allSettled"
    /\ Cardinality(InFlight(p)) >= 2
    /\ \E k \in InFlight(p) : tasks[p][k].st = "deleteFile"
    /\ Failed(p, "deleteDocument")

\* ------------------------------------------------------------------ C13
\* C13: for each discovered dependent a blob deletion is issued if and
\* only if it has a blobRef; its record deletion is attempted exactly once,
\* and only after its blob deletion, if any, has completed, whether that
\* succeeded or failed.
C13_BlobThenRecord ==
  \A p \in Procs :
    /\ \A k \in DOMAIN tasks[p] :
         tasks[p][k].st = "deleteFile" =>
           Call("deleteDocument", tasks[p][k].photo.id) \notin Range(calls[p])
    /\ BatchDone(p) =>
         /\ \A d \in Range(allPhotos[p]) :
              /\ Count(p, Call("deleteDocument", d.id)) = 1
              /\ Count(p, Call("deleteFile", d.file_id)) = IF HasFile(d) THEN 1 ELSE 0
              /\ HasFile(d) =>
                   IndexOf(p, Call("deleteFile", d.file_id))
                     < IndexOf(p, Call("deleteDocument", d.id))
         /\ Cardinality({k \in 1..Len(calls[p]) : calls[p][k].op = "deleteFile"})
              = Cardinality({k \in 1..Len(allPhotos[p]) : HasFile(allPhotos[p][k])})
         /\ Cardinality({k \in 1..Len(calls[p]) : calls[p][k].op = "deleteDocument"})
              = Len(allPhotos[p])

C13_Witness ==
  \E p \in Procs :
    /\ BatchDone(p)
    /\ \E d \in Range(allPhotos[p]) :
         /\ HasFile(d)
         /\ Call("deleteFile", d.file_id) \in failures[p]
         /\ Call("deleteDocument", d.id) \in Range(calls[p])
         /\ Call("deleteDocument", d.id) \notin failures[p]
    /\ \E d \in Range(allPhotos[p]) : ~HasFile(d)

\* ------------------------------------------------------------------ C14
\* C14: once discovery has completed, the deletion of the parent is
\* eventually issued, whatever the outcomes of the items; it is issued
\* once, in a step taken when every group has been started and every member
\* task has completed, and no store call is issued after it.
C14_ParentDeletionFollows ==
  /\ \A p \in Procs : Discovered(p) ~> BatchDone(p)
  /\ [](\A p \in Procs : Count(p, Call("deleteEvent", 0)) <= 1)
  /\ [][\A p \in Procs :
          /\ (~BatchDone(p) /\ BatchDone(p)') =>
               /\ InFlight(p) = {}
               /\ Len(chunks[p]) = CeilDiv(Len(allPhotos'[p]), chunkSize)
          /\ BatchDone(p) => calls'[p] = calls[p]]_vars

C14_Witness ==
  \E p \in Procs :
    /\ BatchDone(p)
    /\ calls[p][Len(calls[p])] = Call("deleteEvent", 0)
    /\ Len(chunks[p]) >= 2
    /\ Failed(p, "deleteFile")
    /\ Failed(p, "deleteDocument")

\* ------------------------------------------------------------------ C15
\* C15: over a store that honours limit P and offset and holds n
\* dependents of the parent, discovery makes exactly floor(n / P) + 1 page
\* fetches, one at a time, at the offsets 0, P, 2P, ...: a full page is
\* always followed by another fetch, a shorter or empty page ends discovery
\* (n a multiple of P, n = 0 included, ends with one fetch of an empty page).
C15_PageFetches ==
  \A p \in Procs :
    LET lists == SelectSeq(calls[p], LAMBDA c : c.op = "listDocuments")
        n == Len(Dependents(snap[p].photos, eventId[p]))
    IN /\ \A k \in 1..Len(lists) : lists[k].arg = (k - 1) * limit
       /\ pc[p] = "listDocuments" => Len(lists) = Len(pages[p]) + 1
       /\ pc[p] # "listDocuments" /\ ~Failed(p, "listDocuments") => Len(lists) = Len(pages[p])
       /\ Discovered(p) => Len(lists) = (n \div limit) + 1

C15_Witness ==
  \E p \in Procs :
    /\ Discovered(p)
    /\ Len(allPhotos[p]) >= limit
    /\ Len(allPhotos[p]) % limit = 0
    /\ pages[p][Len(pages[p])] = 0
    /\ Len(pages[p]) = (Len(allPhotos[p]) \div limit) + 1

\* ------------------------------------------------------------------ C16
\* C16, as claimed: the offset advances by the number of records a page
\* returned, and when the store returns a non-empty page of fewer than P
\* records while more dependents remain, every dependent of the parent is
\* still discovered exactly once.
C16_TruncatedPageStillComplete ==
  \A p \in Procs :
    /\ offset[p] = Sum(pages[p])
    /\ Discovered(p) => allPhotos[p] = Dependents(snap[p].photos, eventId[p])

\* C16, amended: the offset advances by the number of records a page
\* returned, never by the page size, and what is accumulated is always the
\* first `offset` dependents of the parent, each once and in order; but a
\* page of fewer than P records is always the last one fetched, so after a
\* truncated page the dependents behind it are not discovered.
C16_OffsetByReturnedCount ==
  \A p \in Procs :
    LET deps == Dependents(snap[p].photos, eventId[p])
    IN /\ offset[p] = Sum(pages[p])
       /\ Len(allPhotos[p]) = offset[p]
       /\ offset[p] <= Len(deps)
       /\ allPhotos[p] = SubSeq(deps, 1, offset[p])
       /\ \A k \in 1..(Len(pages[p]) - 1) : pages[p][k] = limit
       /\ \A k \in 1..Len(pages[p]) :
            pages[p][k] < limit => k = Len(pages[p]) /\ pc[p] # "listDocuments"

C16_Witness ==
  \E p \in Procs :
    /\ Responded(p, 200)
    /\ failures[p] = {}
    /\ pages[p][Len(pages[p])] > 0
    /\ Len(allPhotos[p]) < Len(Dependents(snap[p].photos, eventId[p]))
    /\ Latest(p) /\ Dependents(photos, eventId[p]) # <<>>

\* ------------------------------------------------------------------ C17
\* C17: within one invocation discovery and deletion are disjoint phases:
\* while a list call is pending no delete call (blob, dependent record or
\* parent) has been issued, and no list call is issued after a delete call.
C17_PhasesAreDisjoint ==
  \A p \in Procs :
    /\ pc[p] = "listDocuments" => DeleteCalls(p) = {}
    /\ \A j, k \in 1..Len(calls[p]) :
         j < k /\ calls[p][j].op \in DeleteOps => calls[p][k].op # "listDocuments"

C17_Witness ==
  \E p \in Procs :
    /\ BatchDone(p)
    /\ Len(pages[p]) >= 2
    /\ Len(chunks[p]) >= 2
    /\ \E j \in 1..Len(calls[p]) :
         /\ \A k \in 1..j : calls[p][k].op \in {"getDocument", "listDocuments"}
         /\ \A k \in (j + 1)..Len(calls[p]) : calls[p][k].op \in DeleteOps
         /\ Len(calls[p]) > j + 2

\* ------------------------------------------------------------------ C18
\* The ownership check let the invocation through to discovery.
Authorized(p) == Issued(p, "listDocuments")

\* C18: the ownership check compares trimmed strings on both sides: once
\* the parent has been found, the caller is authorized if and only if the
\* trimmed recorded owner id equals the trimmed caller id, so whitespace
\* around either id never changes the outcome.
C18_TrimmedOnBothSides ==
  \A p \in Procs :
    /\ LookupReturned(p)
    /\ eventId[p] \in DOMAIN snap[p].events
    => (Authorized(p) <=> Trim(RecordedOwner(p)) = Trim(CallerId(p)))

\* ------------------------------------------------------------------ C19
\* C19: when an invocation returns 200 and none of its store calls failed
\* (no other actor writing meanwhile), the record store holds neither the
\* parent nor any dependent of that parent, the blob store holds no blob
\* that a discovered dependent refers to, and the other records are as
\* they were.
C19_NothingLeftAfterSuccess ==
  \A p \in Procs :
    Responded(p, 200) /\ failures[p] = {} =>
      /\ eventId[p] \notin DOMAIN events
      /\ Dependents(photos, eventId[p]) = <<>>
      /\ \A d \in Range(allPhotos[p]) : HasFile(d) => d.file_id \notin files
      /\ \A d \in Range(snap[p].photos) :
           d.event_id = eventId[p] /\ HasFile(d) => d.file_id \notin files
      /\ photos = SelectSeq(snap[p].photos, LAMBDA d : d.event_id # eventId[p])

C19_Witness ==
  \E p \in Procs :
    /\ Responded(p, 200)
    /\ failures[p] = {}
    /\ Len(allPhotos[p]) > limit
    /\ \E d \in Range(allPhotos[p]) : HasFile(d)
    /\ \E d \in Range(allPhotos[p]) : ~HasFile(d)
    /\ photos # <<>>

\* ------------------------------------------------------------------ C20
\* Two invocations by the owner for the same parent, interleaved at every
\* await of lines 182-245. The stores answer as they stand: getDocument and
\* listDocuments return, and a delete call fails exactly when its target is
\* already absent.
OwnerRequest == [body |-> [raw |-> "object", eventId |-> E1], userId |-> <<"a">>]

\* The most photo documents stored when the two invocations start.
MaxConcPhotos == 3

InitConc ==
  /\ Init
  /\ events[E1].user_id = <<"a">>
  /\ Len(photos) <= MaxConcPhotos

\* The invocations are numbered in the order they arrive.
ConcInvoke(p) ==
  /\ \A q \in Procs : q < p => pc[q] # "idle"
  /\ Invoke(p, OwnerRequest)

ConcGetDocument(p) == GetDocumentReturns(p, FALSE)

ConcListDocuments(p) == ListDocumentsReturns(p, PageAt(p), FALSE)

ConcDeleteFile(p) ==
  \E k \in DOMAIN tasks[p] :
    DeleteFileReturns(p, k, tasks[p][k].photo.file_id \in files)

ConcDeleteDocument(p) ==
  \E k \in DOMAIN tasks[p] :
    DeleteDocumentReturns(p, k, tasks[p][k].photo.id \in PhotoIds(photos))

ConcDeleteEvent(p) == DeleteEventReturns(p, eventId[p] \in DOMAIN events)

NextConc ==
  \E p \in Procs :
    \/ ConcInvoke(p)
    \/ ConcGetDocument(p)
    \/ ConcListDocuments(p)
    \/ ConcDeleteFile(p)
    \/ ConcDeleteDocument(p)
    \/ AllSettled(p)
    \/ ConcDeleteEvent(p)

SpecConc == InitConc /\ [][NextConc]_vars

\* C20: after two interleaved invocations by the owner for the same parent
\* have both responded, with no delete call failing except on an absent
\* target, the parent is gone, no dependent of it is stored, and no blob
\* that a dependent of it referred to is stored.
C20_InterleavedLeavesNoOrphan ==
  (\A p \in Procs : Finished(p)) =>
    /\ E1 \notin DOMAIN events
    /\ Dependents(photos, E1) = <<>>
    /\ \A p \in Procs : \A d \in Range(snap[p].photos) :
         d.event_id = E1 /\ HasFile(d) => d.file_id \notin files

C20_Witness ==
  /\ \A p \in Procs : Finished(p) /\ DeleteCalls(p) # {}
  /\ \E p \in Procs :
       /\ Len(Dependents(snap[p].photos, E1)) > limit
       /\ Len(allPhotos[p]) > 0
       /\ Len(allPhotos[p]) < Len(Dependents(snap[p].photos, E1))
       /\ \E d \in Range(snap[p].photos) : d.event_id = E1 /\ HasFile(d)
       /\ \E c \in failures[p] : c.op = "deleteFile"
  /\ \E p \in Procs : Responded(p, 200)

====
